---- MODULE Spec2Model ----
(***************************************************************************)
(* Model of phonebook.py: the address book (Field, Phone, Birthday,        *)
(* Record, AddressBook), its persistence (save_data, load_data), the       *)
(* command handlers wrapped by input_error, and the command loop of main.  *)
(*                                                                         *)
(* Python strings are sequences of one-character strings, so that split,   *)
(* lower, isdigit, len, strptime and strftime are computed character by    *)
(* character.  The input alphabet is ASCII.  None is the empty sequence    *)
(* and a present optional value x is <<x>>.                                *)
(***************************************************************************)
EXTENDS Integers, Sequences, FiniteSets

VARIABLES
    pc,          \* "start" (before load_data), "loop", "done", "died"
    file,        \* book.pkl on disk
    contacts,    \* main's AddressBook: name -> Record
    user_input,  \* the line last returned by input(), None before the first
    output,      \* what the last step printed (stdout, or the traceback)
    today        \* datetime.today() as read by the last birthdays call

vars == <<pc, file, contacts, user_input, output, today>>

None == <<>>
Some(x) == <<x>>

----------------------------------------------------------------------------
(* Bounds of the model.                                                    *)

\* add is not offered to a record that already holds MaxPhones phones.
MaxPhones == 2

----------------------------------------------------------------------------
(* Characters and str methods.                                             *)

Digits == <<"0", "1", "2", "3", "4", "5", "6", "7", "8", "9">>

IsDigitChar(c) == \E i \in 1..Len(Digits) : Digits[i] = c

DigitValue(c) == (CHOOSE i \in 1..Len(Digits) : Digits[i] = c) - 1

DigitChar(d) == Digits[d + 1]

\* str.isdigit(): non-empty and every character a digit.
isdigit(s) == Len(s) > 0 /\ \A i \in 1..Len(s) : IsDigitChar(s[i])

IsSpace(c) == c = " "

Upper == <<"A", "B", "C", "D", "E", "F", "G", "H", "I", "J", "K", "L", "M",
           "N", "O", "P", "Q", "R", "S", "T", "U", "V", "W", "X", "Y", "Z">>

Lower == <<"a", "b", "c", "d", "e", "f", "g", "h", "i", "j", "k", "l", "m",
           "n", "o", "p", "q", "r", "s", "t", "u", "v", "w", "x", "y", "z">>

LowerChar(c) ==
    IF \E i \in 1..Len(Upper) : Upper[i] = c
    THEN Lower[CHOOSE i \in 1..Len(Upper) : Upper[i] = c]
    ELSE c

\* str.lower()
lower(s) == [i \in 1..Len(s) |-> LowerChar(s[i])]

\* str.strip(): drop leading and trailing whitespace.
strip(s) ==
    LET keep == {i \in 1..Len(s) : ~IsSpace(s[i])}
    IN  IF keep = {} THEN <<>>
        ELSE LET lo == CHOOSE i \in keep : \A j \in keep : i <= j
                 hi == CHOOSE i \in keep : \A j \in keep : j <= i
             IN  SubSeq(s, lo, hi)

RECURSIVE SplitOn(_, _, _, _, _)
\* Scan s from position i; cur is the piece being read, acc the pieces read.
\* With keepEmpty the separator is "." and empty pieces are kept (the
\* fields of a date); without, it is whitespace and empty pieces are
\* dropped (str.split() on runs of whitespace).
SplitOn(s, i, cur, acc, keepEmpty) ==
    LET flush == IF keepEmpty \/ Len(cur) > 0 THEN Append(acc, cur) ELSE acc
    IN  IF i > Len(s) THEN flush
        ELSE IF (IF keepEmpty THEN s[i] = "." ELSE IsSpace(s[i]))
             THEN SplitOn(s, i + 1, <<>>, flush, keepEmpty)
             ELSE SplitOn(s, i + 1, Append(cur, s[i]), acc, keepEmpty)

\* str.split(): the words between runs of whitespace; [] for a blank line.
split(s) == SplitOn(s, 1, <<>>, <<>>, FALSE)

RECURSIVE ToInt(_)
\* int() of a digit string.
ToInt(s) ==
    IF Len(s) = 0 THEN 0
    ELSE 10 * ToInt(SubSeq(s, 1, Len(s) - 1)) + DigitValue(s[Len(s)])

\* "%02d" % n
TwoDigits(n) == <<DigitChar(n \div 10), DigitChar(n % 10)>>

\* "%d" % n for a four-digit year
FourDigits(n) ==
    <<DigitChar(n \div 1000), DigitChar((n \div 100) % 10),
      DigitChar((n \div 10) % 10), DigitChar(n % 10)>>

----------------------------------------------------------------------------
(* datetime and timedelta.                                                 *)

SecondsPerDay == 86400
MicrosPerSecond == 1000000

IsLeap(y) == (y % 4 = 0) /\ ((y % 100 # 0) \/ (y % 400 = 0))

DaysInMonth(y, m) ==
    IF m = 2 THEN (IF IsLeap(y) THEN 29 ELSE 28)
    ELSE IF m \in {4, 6, 9, 11} THEN 30 ELSE 31

\* a date datetime accepts
IsDate(y, m, d) ==
    /\ y \in 1..9999
    /\ m \in 1..12
    /\ d \in 1..DaysInMonth(y, m)

RECURSIVE DaysBeforeMonth(_, _)
DaysBeforeMonth(y, m) ==
    IF m = 1 THEN 0 ELSE DaysBeforeMonth(y, m - 1) + DaysInMonth(y, m - 1)

DaysBeforeYear(y) ==
    (y - 1) * 365 + ((y - 1) \div 4) - ((y - 1) \div 100) + ((y - 1) \div 400)

\* datetime(year, month, day, second-of-day, microsecond)
DateTime(y, m, d, s, us) ==
    [year |-> y, month |-> m, day |-> d, second |-> s, microsecond |-> us]

\* date.toordinal()
toordinal(dt) ==
    DaysBeforeYear(dt.year) + DaysBeforeMonth(dt.year, dt.month) + dt.day

\* A point in time as (ordinal day, second of day, microsecond).
Instant(dt) == [days |-> toordinal(dt), seconds |-> dt.second,
                microseconds |-> dt.microsecond]

\* datetime + timedelta(days=n)
PlusDays(t, n) == [t EXCEPT !.days = @ + n]

\* datetime <= datetime
Leq(a, b) ==
    \/ a.days < b.days
    \/ a.days = b.days /\ a.seconds < b.seconds
    \/ a.days = b.days /\ a.seconds = b.seconds
         /\ a.microseconds <= b.microseconds

\* datetime - datetime: a timedelta, normalised as Python does
\* (0 <= seconds < 86400, 0 <= microseconds < 1000000, days takes the sign).
Minus(a, b) ==
    LET us0 == a.microseconds - b.microseconds
        s0  == (a.seconds - b.seconds) - (IF us0 < 0 THEN 1 ELSE 0)
        us  == IF us0 < 0 THEN us0 + MicrosPerSecond ELSE us0
        d   == (a.days - b.days) - (IF s0 < 0 THEN 1 ELSE 0)
        s   == IF s0 < 0 THEN s0 + SecondsPerDay ELSE s0
    IN  [days |-> d, seconds |-> s, microseconds |-> us]

\* datetime.strptime(value, "%d.%m.%Y"): Some(datetime), or None for the
\* ValueError.  %d and %m take one or two digits, %Y exactly four.
strptime(value) ==
    LET parts == SplitOn(value, 1, <<>>, <<>>, TRUE)
    IN  IF Len(parts) # 3 THEN None
        ELSE LET dd == parts[1]
                 mm == parts[2]
                 yy == parts[3]
             IN  IF /\ isdigit(dd) /\ Len(dd) \in 1..2
                    /\ isdigit(mm) /\ Len(mm) \in 1..2
                    /\ isdigit(yy) /\ Len(yy) = 4
                    /\ IsDate(ToInt(yy), ToInt(mm), ToInt(dd))
                 THEN Some(DateTime(ToInt(yy), ToInt(mm), ToInt(dd), 0, 0))
                 ELSE None

\* value.strftime("%d.%m.%Y")
strftime(dt) ==
    TwoDigits(dt.day) \o <<".">> \o TwoDigits(dt.month) \o <<".">>
        \o FourDigits(dt.year)

\* value.replace(year=y): Some(datetime), or None for the ValueError
\* ("day is out of range for month").
replace_year(dt, y) ==
    IF IsDate(y, dt.month, dt.day)
    THEN Some([dt EXCEPT !.year = y])
    ELSE None

----------------------------------------------------------------------------
(* Fields, Record, AddressBook.                                            *)

\* len(value) != 10 in Phone.__init__
PhoneLen == 10

\* Phone(value): Some(value), or None for the ValueError.
Phone(value) ==
    IF ~isdigit(value) \/ Len(value) # PhoneLen THEN None ELSE Some(value)

\* Birthday(value): Some(datetime), or None for the ValueError.
Birthday(value) == strptime(value)

\* Birthday.__str__
BirthdayStr(b) == strftime(b)

\* Record(name): phones is the list of the Phone values in order,
\* birthday is None or Some(the Birthday's datetime).
Record(name) == [name |-> name, phones |-> <<>>, birthday |-> None]

\* add_phone as it would be with self.phones = [Phone(phone)]: the phones
\* the record held are lost.
add_phone_replacing(record, phone) ==
    IF Phone(phone) = None THEN None
    ELSE Some([record EXCEPT !.phones = <<Phone(phone)[1]>>])

\* Record.add_phone: Some(record), or None for Phone's ValueError.
add_phone(record, phone) ==
    IF Phone(phone) = None THEN None
    ELSE Some([record EXCEPT !.phones = Append(@, Phone(phone)[1])])

\* Record.remove_phone
remove_phone(record, phone) ==
    [record EXCEPT !.phones = SelectSeq(@, LAMBDA p : p # phone)]

\* edit_phone as it would be without the break: every phone equal to
\* old_phone gets new_phone.
edit_phone_all(record, old_phone, new_phone) ==
    [record EXCEPT !.phones =
        [k \in 1..Len(@) |-> IF @[k] = old_phone THEN new_phone ELSE @[k]]]

\* Record.edit_phone: the first phone equal to old_phone gets new_phone
\* as its value; Phone is not constructed, so nothing can be raised.
edit_phone(record, old_phone, new_phone) ==
    LET hits == {i \in 1..Len(record.phones) : record.phones[i] = old_phone}
    IN  IF hits = {} THEN record
        ELSE LET first == CHOOSE i \in hits : \A j \in hits : i <= j
             IN  [record EXCEPT !.phones[first] = new_phone]

\* Record.find_phone: Some(value) or None
find_phone(record, phone) ==
    IF \E i \in 1..Len(record.phones) : record.phones[i] = phone
    THEN Some(phone) ELSE None

\* Record.add_birthday: Some(record), or None for Birthday's ValueError.
add_birthday_field(record, date) ==
    IF Birthday(date) = None THEN None
    ELSE Some([record EXCEPT !.birthday = Birthday(date)])

NotSpecified == <<"ne zaznacheno">>

RECURSIVE JoinPhones(_)
\* '; '.join(p.value for p in self.phones)
JoinPhones(phones) ==
    IF Len(phones) = 0 THEN <<>>
    ELSE IF Len(phones) = 1 THEN phones[1]
    ELSE phones[1] \o <<";", " ">> \o JoinPhones(Tail(phones))

\* Record.__str__: the three values the f-string interpolates.
RecordStr(record) ==
    [name |-> record.name,
     phones |-> JoinPhones(record.phones),
     birthday |-> IF record.birthday # None
                  THEN BirthdayStr(record.birthday[1]) ELSE NotSpecified]

\* AddressBook(): the dict is a function from the names it holds.
AddressBook == [n \in {} |-> Record(<<>>)]

\* AddressBook.add_record: insert or overwrite under record.name.value
add_record(book, record) ==
    [n \in DOMAIN book \cup {record.name} |->
        IF n = record.name THEN record ELSE book[n]]

\* AddressBook.find: Some(record) or None
find(book, name) == IF name \in DOMAIN book THEN Some(book[name]) ELSE None

\* AddressBook.delete
delete(book, name) == [n \in DOMAIN book \ {name} |-> book[n]]

\* A mutation through a record reference obtained from find(): the record
\* held under the name is the mutated object.
Store(book, record) == [book EXCEPT ![record.name] = record]

----------------------------------------------------------------------------
(* Persistence: book.pkl.  The file is absent, or holds a sequence of      *)
(* items: none (zero bytes), a pickled AddressBook, or bytes that are no   *)
(* pickle.                                                                 *)

NoFile == [exists |-> FALSE, items |-> <<>>]

\* pickle.dump(book, f)
pickle_dump(book) == <<[pickled |-> TRUE, obj |-> book]>>

\* pickle.load(f): the object, or the exception raised.
pickle_load(items) ==
    IF Len(items) = 0 THEN [raised |-> "EOFError", obj |-> AddressBook]
    ELSE IF ~items[1].pickled
         THEN [raised |-> "UnpicklingError", obj |-> AddressBook]
         ELSE [raised |-> "", obj |-> items[1].obj]

\* save_data: open(filename, "wb") and dump
save_data(book) == [exists |-> TRUE, items |-> pickle_dump(book)]

\* load_data: only FileNotFoundError is caught.
load_data(f) ==
    IF ~f.exists THEN [raised |-> "", obj |-> AddressBook]
    ELSE pickle_load(f.items)

----------------------------------------------------------------------------
(* Messages (the Ukrainian texts, transliterated).                         *)

MsgValueError == "Bud laska, nadaite imia ta nomer telefonu."
MsgKeyError == "Kontakt ne znaidenyi."
MsgIndexError == "Nepravylne vykorystannia komandy. Bud laska, sprobuite znovu."
MsgAdded == "Kontakt dodanyi."
MsgUpdated == "Kontakt onovlenyi."
MsgChanged == "Kontakt onovleno."
MsgNoName == "Kontakt z imenem {name} ne znaideno."
MsgNoContact == "Kontakt {name} ne znaideno."
MsgBirthdayAdded == "Den narodzhennia dodano."
MsgNoBirthday == "Nemaie dnia narodzhennia dlia {name}."
MsgBirthday == "Den narodzhennia {name}: {birthday}"
MsgNoUpcoming == "Nemaie naiblyzhchykh dniv narodzhennia."
MsgUpcoming == "{name}: {birthday} (cherez {days_left} dniv)"
MsgAll == "{key} {value}"
MsgRecord == "{record}"
MsgHello == "Yak ya mozhu dopomohty?"
MsgBye == "Do pobachennia!"
MsgInvalid == "Nevirna komanda."
MsgWelcome == "Vitaiemo v asystenti!"
MsgTraceback == "Traceback (most recent call last)"

\* A printed text: the template, the values interpolated into it, and for
\* the "\n".join of one line per record the set of the lines' values.
Say(text, args) == [text |-> text, args |-> args, lines |-> {}]

SayLines(text, lines) == [text |-> text, args |-> <<>>, lines |-> lines]

----------------------------------------------------------------------------
(* Command handlers.  A handler yields the exception it raised ("" for     *)
(* none), the value it returned, and the AddressBook as it left it.        *)

Return(ret, book) == [raised |-> "", ret |-> ret, contacts |-> book]

Raise(exc, book) == [raised |-> exc, ret |-> Say("", <<>>), contacts |-> book]

\* input_error's inner: the exception becomes the returned message.
input_error(r) ==
    IF r.raised = "" THEN r
    ELSE IF r.raised = "ValueError"
         THEN Return(Say(MsgValueError, <<>>), r.contacts)
    ELSE IF r.raised = "KeyError"
         THEN Return(Say(MsgKeyError, <<>>), r.contacts)
    ELSE IF r.raised = "IndexError"
         THEN Return(Say(MsgIndexError, <<>>), r.contacts)
    ELSE Return(Say("Pomylka: {e}", <<r.raised>>), r.contacts)

\* add_contact, undecorated
add_contact_body(args, book) ==
    IF Len(args) < 2 THEN Raise("ValueError", book)
    ELSE LET name    == args[1]
             phone   == args[2]
             found   == find(book, name)
             record  == IF found = None THEN Record(name) ELSE found[1]
             book1   == IF found = None THEN add_record(book, record) ELSE book
             message == IF found = None THEN MsgAdded ELSE MsgUpdated
         IN  IF Len(phone) > 0
             THEN IF add_phone(record, phone) = None
                  THEN Raise("ValueError", book1)
                  ELSE Return(Say(message, <<>>),
                              Store(book1, add_phone(record, phone)[1]))
             ELSE Return(Say(message, <<>>), book1)

add_contact(args, book) == input_error(add_contact_body(args, book))

\* change_contact, undecorated
change_contact_body(args, book) ==
    IF Len(args) # 3 THEN Raise("ValueError", book)
    ELSE LET name      == args[1]
             old_phone == args[2]
             new_phone == args[3]
             found     == find(book, name)
         IN  IF found = None THEN Return(Say(MsgNoName, <<name>>), book)
             ELSE Return(Say(MsgChanged, <<>>),
                         Store(book, edit_phone(found[1], old_phone, new_phone)))

change_contact(args, book) == input_error(change_contact_body(args, book))

\* show_phone, undecorated
show_phone_body(args, book) ==
    IF Len(args) # 1 THEN Raise("ValueError", book)
    ELSE LET name  == args[1]
             found == find(book, name)
         IN  IF found = None THEN Return(Say(MsgNoName, <<name>>), book)
             ELSE Return(SayLines(MsgRecord, {RecordStr(found[1])}), book)

show_phone(args, book) == input_error(show_phone_body(args, book))

\* show_all
show_all(book) ==
    input_error(Return(SayLines(MsgAll,
        {[key |-> n, value |-> RecordStr(book[n])] : n \in DOMAIN book}), book))

\* add_birthday, undecorated
add_birthday_body(args, book) ==
    IF Len(args) < 2 THEN Raise("ValueError", book)
    ELSE LET name     == args[1]
             birthday == args[2]
             found    == find(book, name)
         IN  IF found = None THEN Return(Say(MsgNoContact, <<name>>), book)
             ELSE IF add_birthday_field(found[1], birthday) = None
                  THEN Raise("ValueError", book)
                  ELSE Return(Say(MsgBirthdayAdded, <<>>),
                         Store(book, add_birthday_field(found[1], birthday)[1]))

add_birthday(args, book) == input_error(add_birthday_body(args, book))

\* show_birthday, undecorated
show_birthday_body(args, book) ==
    IF Len(args) # 1 THEN Raise("ValueError", book)
    ELSE LET name  == args[1]
             found == find(book, name)
         IN  IF found = None \/ found[1].birthday = None
             THEN Return(Say(MsgNoBirthday, <<name>>), book)
             ELSE Return(Say(MsgBirthday,
                             <<name, BirthdayStr(found[1].birthday[1])>>), book)

show_birthday(args, book) == input_error(show_birthday_body(args, book))

\* The window of the birthdays handler: timedelta(days=7)
WindowDays == 7

\* birthdays, undecorated; now is what datetime.today() returns.  args is
\* not used.  A replace() that raises ends the loop over the records, so
\* the lines collected so far are dropped whatever the order of the dict.
birthdays_body(args, book, now) ==
    LET t         == Instant(now)
        next_week == PlusDays(t, WindowDays)
        with      == {n \in DOMAIN book : book[n].birthday # None}
        moved(n)  == replace_year(book[n].birthday[1], now.year)
        upcoming  == {n \in with :
                        /\ Leq(t, Instant(moved(n)[1]))
                        /\ Leq(Instant(moved(n)[1]), next_week)}
        line(n)   == [name |-> book[n].name,
                      birthday |-> BirthdayStr(book[n].birthday[1]),
                      days_left |-> Minus(Instant(moved(n)[1]), t).days]
    IN  IF \E n \in with : moved(n) = None THEN Raise("ValueError", book)
        ELSE IF upcoming # {}
             THEN Return(SayLines(MsgUpcoming, {line(n) : n \in upcoming}), book)
             ELSE Return(Say(MsgNoUpcoming, <<>>), book)

birthdays(args, book, now) == input_error(birthdays_body(args, book, now))

\* parse_input: cmd, *args = user_input.split(), cmd stripped and lowered.
\* A blank line leaves nothing to unpack: ValueError, which input_error
\* turns into its message, returned in place of the (cmd, args) pair.
parse_input(line) ==
    LET words == split(line)
    IN  IF Len(words) = 0
        THEN [pair |-> FALSE, cmd |-> <<>>, args |-> <<>>,
              ret |-> Say(MsgValueError, <<>>)]
        ELSE [pair |-> TRUE, cmd |-> lower(strip(words[1])),
              args |-> Tail(words), ret |-> Say("", <<>>)]

----------------------------------------------------------------------------
(* What the user types and what the clock shows.                           *)

Oleh == <<"O", "l", "e", "h">>

Ira == <<"I", "r", "a">>

Phone1 == <<"0", "5", "0", "1", "2", "3", "4", "5", "6", "7">>

Phone2 == <<"0", "5", "0", "7", "6", "5", "4", "3", "2", "1">>

PhoneShort == <<"0", "5", "0", "1", "2", "3", "4", "5", "6">>

PhoneLetters == <<"0", "5", "0", "1", "2", "3", "4", "5", "a", "b">>

Date1 == <<"0", "3", ".", "0", "1", ".", "1", "9", "8", "5">>

DateLeap == <<"2", "9", ".", "0", "2", ".", "2", "0", "0", "0">>

DateBad == <<"3", "0", ".", "0", "2", ".", "1", "9", "9", "0">>

W_hello == <<"h", "e", "l", "l", "o">>

W_add == <<"a", "d", "d">>

W_change == <<"c", "h", "a", "n", "g", "e">>

W_phone == <<"p", "h", "o", "n", "e">>

W_all == <<"a", "l", "l">>

W_add_birthday == <<"a", "d", "d", "-", "b", "i", "r", "t", "h", "d", "a", "y">>

W_show_birthday == <<"s", "h", "o", "w", "-", "b", "i", "r", "t", "h", "d", "a", "y">>

W_birthdays == <<"b", "i", "r", "t", "h", "d", "a", "y", "s">>

W_close == <<"c", "l", "o", "s", "e">>

W_exit == <<"e", "x", "i", "t">>

W_EXIT == <<"E", "X", "I", "T">>

W_Add == <<"A", "d", "d">>

W_unknown == <<"d", "e", "l", "e", "t", "e">>

W_extra == <<"3">>

RECURSIVE Line(_)
\* the words separated by one space
Line(words) ==
    IF Len(words) = 0 THEN <<>>
    ELSE IF Len(words) = 1 THEN words[1]
    ELSE words[1] \o <<" ">> \o Line(Tail(words))

\* add with a phone of 10 digits, one too short, one with letters, with
\* the phone missing, and with blanks, capitals and a further word
AddLines ==
    {Line(<<W_add, Oleh, Phone1>>), Line(<<W_add, Oleh, Phone2>>),
     Line(<<W_add, Oleh, PhoneShort>>), Line(<<W_add, Ira, Phone2>>),
     Line(<<W_add, Ira, PhoneLetters>>), Line(<<W_add, Oleh>>),
     <<" ">> \o W_Add \o <<" ", " ">> \o Ira \o <<" ">> \o Phone2
         \o <<" ">> \o W_extra \o <<" ">>}

ChangeLines ==
    {Line(<<W_change, Oleh, Phone1, Phone2>>),
     Line(<<W_change, Oleh, Phone1, PhoneShort>>),
     Line(<<W_change, Oleh, Phone2, Phone1>>),
     Line(<<W_change, Ira, Phone1, Phone2>>),
     Line(<<W_change, Oleh, Phone1>>)}

PhoneLines == {Line(<<W_phone, Oleh>>), Line(<<W_phone>>)}

\* DateBad has the format but is no date
AddBirthdayLines ==
    {Line(<<W_add_birthday, Oleh, Date1>>),
     Line(<<W_add_birthday, Oleh, DateLeap>>),
     Line(<<W_add_birthday, Oleh, DateBad>>),
     Line(<<W_add_birthday, Ira, Date1>>),
     Line(<<W_add_birthday, Oleh>>)}

ShowBirthdayLines == {Line(<<W_show_birthday, Oleh>>)}

BirthdaysLines == {Line(<<W_birthdays>>)}

\* the empty line and a line of blanks
BlankLines == {<<>>, <<" ", " ">>}

InputLines ==
    BlankLines \cup AddLines \cup ChangeLines \cup PhoneLines
        \cup AddBirthdayLines \cup ShowBirthdayLines \cup BirthdaysLines
        \cup {Line(<<W_hello>>), Line(<<W_all>>), Line(<<W_unknown>>),
              Line(<<W_close>>), Line(<<W_EXIT>>)}

\* readings of datetime.today(): midnight and noon of 2024-01-01, the
\* morning of 2024-01-03, noon of 2024-02-22 (a leap year), noon of
\* 2023-02-27 (not a leap year)
Clock ==
    {DateTime(2024, 1, 1, 0, 0), DateTime(2024, 1, 1, 43200, 0),
     DateTime(2024, 1, 3, 32400, 0), DateTime(2024, 2, 22, 43200, 0),
     DateTime(2023, 2, 27, 43200, 0)}

\* a book an earlier run saved: add Oleh 0501234567, add-birthday Oleh
\* 03.01.1985, close
SavedBook ==
    add_record(AddressBook,
               [name |-> Oleh, phones |-> <<Phone1>>, birthday |-> Birthday(Date1)])

\* book.pkl before the program starts: absent, empty, not a pickle, or
\* saved by an earlier run
InitialFiles ==
    {NoFile,
     [exists |-> TRUE, items |-> <<>>],
     [exists |-> TRUE, items |-> <<[pickled |-> FALSE, obj |-> AddressBook]>>],
     save_data(SavedBook)}

----------------------------------------------------------------------------
(* main.                                                                   *)

Init ==
    /\ pc = "start"
    /\ file \in InitialFiles
    /\ contacts = AddressBook
    /\ user_input = None
    /\ output = Say("", <<>>)
    /\ today = None

\* contacts = load_data() and the welcome; an exception of load_data is
\* not caught and ends the process.
Load ==
    /\ pc = "start"
    /\ LET r == load_data(file)
       IN  IF r.raised = ""
           THEN /\ pc' = "loop"
                /\ contacts' = r.obj
                /\ output' = Say(MsgWelcome, <<>>)
           ELSE /\ pc' = "died"
                /\ contacts' = contacts
                /\ output' = Say(MsgTraceback, <<r.raised>>)
    /\ UNCHANGED <<file, user_input, today>>

\* user_input = input(...) with parse_input(user_input), for every line
\* the user may type
Parsed == {[line |-> l, parsed |-> parse_input(l)] : l \in InputLines}

\* The lines main's if/elif chain sends to the branch of these commands.
Dispatch(commands) ==
    {i \in Parsed : i.parsed.pair /\ i.parsed.cmd \in commands}

Commands ==
    {W_close, W_exit, W_hello, W_add, W_change, W_phone, W_all,
     W_add_birthday, W_show_birthday, W_birthdays}

UnpackInputs == {i \in Parsed : ~i.parsed.pair}
CloseInputs == Dispatch({W_close, W_exit})
HelloInputs == Dispatch({W_hello})
AddInputs == Dispatch({W_add})
ChangeInputs == Dispatch({W_change})
PhoneInputs == Dispatch({W_phone})
AllInputs == Dispatch({W_all})
AddBirthdayInputs == Dispatch({W_add_birthday})
ShowBirthdayInputs == Dispatch({W_show_birthday})
BirthdaysInputs == Dispatch({W_birthdays})
InvalidInputs == {i \in Parsed : i.parsed.pair /\ i.parsed.cmd \notin Commands}

\* user_input = input(...)
Read(i) ==
    /\ pc = "loop"
    /\ user_input' = Some(i.line)

\* print(handler(args, contacts)) and back to the top of the loop
Reply(r) ==
    /\ contacts' = r.contacts
    /\ output' = r.ret
    /\ pc' = "loop"
    /\ UNCHANGED file

\* A blank line: parse_input returns input_error's message, a str that
\* does not unpack into (command, args); the ValueError is raised in main,
\* outside every handler.
Unpack ==
    \E i \in UnpackInputs :
        /\ Read(i)
        /\ pc' = "died"
        /\ output' = Say(MsgTraceback, <<"ValueError">>)
        /\ today' = None
        /\ UNCHANGED <<file, contacts>>

Close ==
    \E i \in CloseInputs :
        /\ Read(i)
        /\ file' = save_data(contacts)
        /\ output' = Say(MsgBye, <<>>)
        /\ pc' = "done"
        /\ today' = None
        /\ UNCHANGED contacts

Hello ==
    \E i \in HelloInputs :
        /\ Read(i)
        /\ Reply(Return(Say(MsgHello, <<>>), contacts))
        /\ today' = None

\* The model offers add only while the named record holds fewer than
\* MaxPhones phones.
Add ==
    \E i \in AddInputs :
        /\ Read(i)
        /\ LET args == i.parsed.args
           IN  /\ (Len(args) >= 1 /\ args[1] \in DOMAIN contacts)
                    => Len(contacts[args[1]].phones) < MaxPhones
               /\ Reply(add_contact(args, contacts))
        /\ today' = None

Change ==
    \E i \in ChangeInputs :
        /\ Read(i)
        /\ Reply(change_contact(i.parsed.args, contacts))
        /\ today' = None

ShowPhone ==
    \E i \in PhoneInputs :
        /\ Read(i)
        /\ Reply(show_phone(i.parsed.args, contacts))
        /\ today' = None

ShowAll ==
    \E i \in AllInputs :
        /\ Read(i)
        /\ Reply(show_all(contacts))
        /\ today' = None

AddBirthday ==
    \E i \in AddBirthdayInputs :
        /\ Read(i)
        /\ Reply(add_birthday(i.parsed.args, contacts))
        /\ today' = None

ShowBirthday ==
    \E i \in ShowBirthdayInputs :
        /\ Read(i)
        /\ Reply(show_birthday(i.parsed.args, contacts))
        /\ today' = None

Birthdays ==
    \E i \in BirthdaysInputs, now \in Clock :
        /\ Read(i)
        /\ Reply(birthdays(i.parsed.args, contacts, now))
        /\ today' = Some(now)

Invalid ==
    \E i \in InvalidInputs :
        /\ Read(i)
        /\ Reply(Return(Say(MsgInvalid, <<>>), contacts))
        /\ today' = None

Next ==
    \/ Load
    \/ Unpack
    \/ Close
    \/ Hello
    \/ Add
    \/ Change
    \/ ShowPhone
    \/ ShowAll
    \/ AddBirthday
    \/ ShowBirthday
    \/ Birthdays
    \/ Invalid

Spec == Init /\ [][Next]_vars

----------------------------------------------------------------------------
(* Vocabulary of the properties.                                           *)

DecimalDigits == {"0", "1", "2", "3", "4", "5", "6", "7", "8", "9"}

\* a string of exactly 10 decimal digits
TenDigits(s) == Len(s) = 10 /\ \A k \in 1..Len(s) : s[k] \in DecimalDigits

Range(seq) == {seq[k] : k \in 1..Len(seq)}

\* This step is an iteration of the command loop that read this line.
Typed(line) == pc = "loop" /\ user_input' = Some(line)

\* The add commands of the input: the line, and the name and phone it gives.
AddRequests ==
    {[line |-> Line(<<W_add, n, p>>), name |-> n, phone |-> p] :
        n \in {Oleh, Ira}, p \in {Phone1, Phone2, PhoneShort, PhoneLetters}}
    \cup {[line |-> <<" ">> \o W_Add \o <<" ", " ">> \o Ira \o <<" ">>
                       \o Phone2 \o <<" ">> \o W_extra \o <<" ">>,
           name |-> Ira, phone |-> Phone2]}

\* The change commands of the input.
ChangeRequests ==
    {[line |-> Line(<<W_change, n, o, p>>), name |-> n, old |-> o, new |-> p] :
        n \in {Oleh, Ira}, o \in {Phone1, Phone2},
        p \in {Phone1, Phone2, PhoneShort}}

\* the index of the first element of seq equal to x (x is in seq)
FirstIndex(seq, x) ==
    CHOOSE k \in 1..Len(seq) : seq[k] = x /\ \A j \in 1..(k - 1) : seq[j] # x

\* The replies that report a failure.
ErrorTexts ==
    {MsgValueError, MsgKeyError, MsgIndexError, MsgNoName, MsgNoContact}

\* The birthdays command was the last to run, at the time in today.
AfterBirthdays == pc = "loop" /\ today # None

\* The number of the calendar day y-m-d.
DayNumber(y, m, d) == DaysBeforeYear(y) + DaysBeforeMonth(y, m) + d

\* The birthday of record n falls on a day that exists in year y.
Movable(n, y) ==
    IsDate(y, contacts[n].birthday[1].month, contacts[n].birthday[1].day)

\* Whole calendar days from today's date to the birthday of record n in
\* today's year.
DaysAhead(n) ==
    DayNumber(today[1].year, contacts[n].birthday[1].month,
              contacts[n].birthday[1].day)
        - DayNumber(today[1].year, today[1].month, today[1].day)

WithBirthday == {n \in DOMAIN contacts : contacts[n].birthday # None}

\* The names the birthdays command listed.
Listed == {l.name : l \in output.lines}

----------------------------------------------------------------------------
(* Properties.                                                             *)

\* C1: after any sequence of commands of a run that started from an empty
\* address book (no book.pkl), every phone stored in every Record of the
\* book is a string of exactly 10 decimal digits.
C1_StoredPhonesAreTenDigits ==
    (pc = "loop" /\ ~file.exists) =>
        \A n \in DOMAIN contacts :
            \A p \in Range(contacts[n].phones) : TenDigits(p)

\* C2: change n old new, with old among the phones of n and new not a
\* 10-digit string, fails with the validator's error and leaves the
\* phones of n as they were.
C2_EditValidatesBeforeMutating ==
    [][\A c \in ChangeRequests :
          (/\ Typed(c.line)
           /\ c.name \in DOMAIN contacts
           /\ c.old \in Range(contacts[c.name].phones)
           /\ ~TenDigits(c.new))
          => /\ output'.text = MsgValueError
             /\ contacts'[c.name].phones = contacts[c.name].phones]_vars

\* C3: no input line is fatal: once a line was read the process has not
\* died, and it has ended only if the line was close or exit.
C3_NoLineIsFatal ==
    user_input # None =>
        /\ pc # "died"
        /\ pc = "done" => user_input[1] \in {Line(<<W_close>>), Line(<<W_EXIT>>)}

\* C4: load never fails: once load has run (and before any command), the
\* process is in the command loop with the saved book if the file holds
\* one, and with an empty book if the file is absent, empty or unreadable.
C4_LoadNeverFails ==
    (pc # "start" /\ user_input = None) =>
        /\ pc = "loop"
        /\ contacts = IF file.exists /\ Len(file.items) > 0 /\ file.items[1].pickled
                      THEN file.items[1].obj
                      ELSE AddressBook

\* C5: the birthdays command lists a record exactly when its birthday,
\* moved to the current year, is from 0 to 7 calendar days after today's
\* date, at whatever time of day it runs (stated where every birthday can
\* be moved to the current year).
C5_WindowInclusive ==
    (AfterBirthdays /\ \A n \in WithBirthday : Movable(n, today[1].year)) =>
        Listed = {n \in WithBirthday : DaysAhead(n) \in 0..7}

\* C6: for every listed record, days_left is the number of whole calendar
\* days from today's date to the birthday's date in the current year.
C6_DaysLeftIsCalendarDays ==
    AfterBirthdays =>
        \A l \in output.lines : l.days_left = DaysAhead(l.name)

\* C9: with a record born on 29 February and a current year that is not
\* a leap year, the birthdays command completes normally: it reports no
\* error, leaves that record out, and lists every other record whose
\* birthday is 1 to 7 calendar days ahead (a birthday on today's own date
\* is the matter of C5).
C9_LeapDaySilentlyExcluded ==
    (AfterBirthdays /\ \E n \in WithBirthday : ~Movable(n, today[1].year)) =>
        /\ output.text \in {MsgUpcoming, MsgNoUpcoming}
        /\ \A n \in WithBirthday :
              IF Movable(n, today[1].year)
              THEN DaysAhead(n) \in 1..7 => n \in Listed
              ELSE n \notin Listed

\* C10: a command that reports a failure leaves the address book as it
\* was; add with a phone that is not 10 digits reports a failure.
C10_FailureLeavesBookUnchanged ==
    [][/\ (pc = "loop" /\ pc' = "loop" /\ output'.text \in ErrorTexts)
            => contacts' = contacts
       /\ \A a \in AddRequests :
            (Typed(a.line) /\ ~TenDigits(a.phone))
                => output'.text \in ErrorTexts]_vars

\* C7: add n p with a 10-digit p: for a new name the book gains the
\* record (n, <<p>>, no birthday) and the reply is "added"; for a known
\* name p is appended after its phones, name and birthday are kept, and
\* the reply is "updated"; no other record of the book changes.
C7_AddKeepsData ==
    [][\A a \in AddRequests :
          (Typed(a.line) /\ TenDigits(a.phone)) =>
             /\ DOMAIN contacts' = DOMAIN contacts \cup {a.name}
             /\ \A m \in DOMAIN contacts \ {a.name} : contacts'[m] = contacts[m]
             /\ IF a.name \in DOMAIN contacts
                THEN /\ contacts'[a.name].phones
                            = Append(contacts[a.name].phones, a.phone)
                     /\ contacts'[a.name].name = contacts[a.name].name
                     /\ contacts'[a.name].birthday = contacts[a.name].birthday
                     /\ output'.text = MsgUpdated
                ELSE /\ contacts'[a.name]
                            = [name |-> a.name, phones |-> <<a.phone>>,
                               birthday |-> None]
                     /\ output'.text = MsgAdded]_vars

\* C7 witness: Oleh, who had a phone and a birthday, got a second phone
\* by add while Ira was in the book.
C7_Witness ==
    /\ pc = "loop"
    /\ user_input = Some(Line(<<W_add, Oleh, Phone2>>))
    /\ output.text = MsgUpdated
    /\ Ira \in DOMAIN contacts
    /\ Oleh \in DOMAIN contacts
    /\ contacts[Oleh].phones = <<Phone1, Phone2>>
    /\ contacts[Oleh].birthday # None

\* C8: change n old new on a record n: without a phone equal to old the
\* record is unchanged for every new; with several phones equal to old
\* every phone but the first of them keeps its value, and the first
\* becomes new (new of 10 digits); name and birthday are kept and no
\* other record changes.
C8_EditFirstOrNothing ==
    [][\A c \in ChangeRequests :
          (Typed(c.line) /\ c.name \in DOMAIN contacts) =>
             LET before == contacts[c.name]
                 after  == contacts'[c.name]
             IN  /\ DOMAIN contacts' = DOMAIN contacts
                 /\ \A m \in DOMAIN contacts \ {c.name} : contacts'[m] = contacts[m]
                 /\ after.name = before.name
                 /\ after.birthday = before.birthday
                 /\ Len(after.phones) = Len(before.phones)
                 /\ IF c.old \notin Range(before.phones)
                    THEN after.phones = before.phones
                    ELSE LET first == FirstIndex(before.phones, c.old)
                         IN  /\ \A k \in 1..Len(before.phones) :
                                   k # first => after.phones[k] = before.phones[k]
                             /\ TenDigits(c.new) => after.phones[first] = c.new]_vars

\* C8 witness: change Oleh Phone1 Phone2 has run on the phones
\* <<Phone1, Phone1>>, the only ones it turns into <<Phone2, Phone1>>.
C8_Witness ==
    /\ pc = "loop"
    /\ user_input = Some(Line(<<W_change, Oleh, Phone1, Phone2>>))
    /\ output.text = MsgChanged
    /\ Oleh \in DOMAIN contacts
    /\ contacts[Oleh].phones = <<Phone2, Phone1>>

====
